---- MODULE Spec2Model ----
(***************************************************************************)
(* Model of the mortgage amortization engine (mortgage.ts): the payment    *)
(* calculator, the schedule generator and the summary reducer; and of the  *)
(* scenario list the application (App.tsx) keeps and edits.                *)
(*                                                                         *)
(* JavaScript numbers are modelled as exact rationals [n, d] in lowest     *)
(* terms with d > 0: every +, -, *, / of the source is the corresponding   *)
(* exact operation.  IEEE-754 rounding is therefore not part of the model; *)
(* an equality proved here holds in the code up to floating-point residue. *)
(***************************************************************************)
EXTENDS Integers, Sequences, FiniteSets

VARIABLES inputs, overrides, monthlyPayment, schedule, baseSchedule, baseline, summary, pc,
          scenarios, editingLumpSum

\* The engine's variables, and the application's: state.scenarios and, per
\* scenario column, whether its lump-sum editor is open (editingLumpSum # null).
engineVars == <<inputs, overrides, monthlyPayment, schedule, baseSchedule, baseline, summary, pc>>
appVars == <<scenarios, editingLumpSum>>

vars == <<engineVars, appVars>>

(* ------------------------------ bounds --------------------------------- *)

\* Longest loan term (months) the model explores.
MaxTerm == 3

\* Most scenarios (the base scenario included) the list is let grow to.
MaxScenarios == 2

(* ------------------------- number arithmetic --------------------------- *)

Abs(x) == IF x < 0 THEN -x ELSE x

RECURSIVE GCD(_, _)
GCD(a, b) == IF b = 0 THEN a ELSE GCD(b, a % b)

\* The number n/d (d # 0) in lowest terms with a positive denominator.
Rat(n, d) ==
    LET s == IF d < 0 THEN -1 ELSE 1
        g == GCD(Abs(n), Abs(d))
    IN  [n |-> (s * n) \div g, d |-> (s * d) \div g]

Zero == Rat(0, 1)

\* a + b, a - b, a * b, a / b.  Common factors are cancelled before the
\* products are formed, which keeps the intermediate integers small.
RAdd(a, b) ==
    LET g == GCD(a.d, b.d)
    IN  Rat(a.n * (b.d \div g) + b.n * (a.d \div g), (a.d \div g) * b.d)

RSub(a, b) ==
    LET g == GCD(a.d, b.d)
    IN  Rat(a.n * (b.d \div g) - b.n * (a.d \div g), (a.d \div g) * b.d)

RMul(a, b) ==
    LET g1 == GCD(Abs(a.n), b.d)
        g2 == GCD(Abs(b.n), a.d)
    IN  IF a.n = 0 \/ b.n = 0 THEN Rat(0, 1)
        ELSE Rat((a.n \div g1) * (b.n \div g2), (a.d \div g2) * (b.d \div g1))

RDiv(a, b) == RMul(a, Rat(b.d, b.n))

\* a <= b, a < b
RLe(a, b) ==
    LET g == GCD(a.d, b.d)
    IN  a.n * (b.d \div g) <= b.n * (a.d \div g)

RLt(a, b) ==
    LET g == GCD(a.d, b.d)
    IN  a.n * (b.d \div g) < b.n * (a.d \div g)

\* Math.min / Math.max
RMin(a, b) == IF RLe(a, b) THEN a ELSE b
RMax(a, b) == IF RLe(a, b) THEN b ELSE a

\* Math.pow(x, k) for an integer exponent k >= 0
RECURSIVE RPow(_, _)
RPow(x, k) == IF k = 0 THEN Rat(1, 1) ELSE RMul(x, RPow(x, k - 1))

\* Array.prototype.reduce((sum, row) => sum + f(row), 0)
RECURSIVE SumOver(_, _)
SumOver(rows, field) ==
    IF rows = << >> THEN Zero
    ELSE RAdd(SumOver(SubSeq(rows, 1, Len(rows) - 1), field), rows[Len(rows)][field])

(* --------------------------- program constants ------------------------- *)

\* Mutant: the balance compared with 0 instead of 0.01.
EpsilonZero == Rat(0, 1)

\* The epsilon threshold 0.01 of the loop guard and of the early-payoff break.
Epsilon == Rat(1, 100)

(* ------------------------- calculateMonthlyPayment --------------------- *)

\* Mutant: the growth factor left out of the numerator (the sinking-fund payment).
calculateMonthlyPaymentNoGrowth(principal, annualRate, termMonths) ==
    LET monthlyRate == RDiv(RDiv(annualRate, Rat(100, 1)), Rat(12, 1))
    IN  IF monthlyRate = Zero
        THEN RDiv(principal, Rat(termMonths, 1))
        ELSE LET numerator   == monthlyRate
                 denominator == RSub(RPow(RAdd(Rat(1, 1), monthlyRate), termMonths), Rat(1, 1))
             IN  RMul(principal, RDiv(numerator, denominator))

calculateMonthlyPayment(principal, annualRate, termMonths) ==
    LET monthlyRate == RDiv(RDiv(annualRate, Rat(100, 1)), Rat(12, 1))
    IN  IF monthlyRate = Zero
        THEN RDiv(principal, Rat(termMonths, 1))
        ELSE LET numerator   == RMul(monthlyRate, RPow(RAdd(Rat(1, 1), monthlyRate), termMonths))
                 denominator == RSub(RPow(RAdd(Rat(1, 1), monthlyRate), termMonths), Rat(1, 1))
             IN  RMul(principal, RDiv(numerator, denominator))

(* ----------------------- generateAmortizationSchedule ------------------ *)

\* overrides?.extraMonthlyPrincipal ?? 0
ExtraMonthlyPrincipalOf(ov) == IF ov.present THEN ov.extraMonthlyPrincipal ELSE Zero

\* overrides?.lumpSumPayments?.get(month) ?? 0
LumpSumOf(ov, month) ==
    IF ov.present /\ month \in DOMAIN ov.lumpSumPayments
    THEN ov.lumpSumPayments[month]
    ELSE Zero

\* Mutant: the clamp against the remaining balance left out.
ClampPrincipalNoMin(tentative, extraPayment, maxPrincipal) ==
    RAdd(tentative, extraPayment)

\* Mutant: the extra taken off the principal portion instead of added to it.
ClampPrincipalSubtract(tentative, extraPayment, maxPrincipal) ==
    RMin(RSub(tentative, extraPayment), maxPrincipal)

\* Math.min(principalPaid + extraPayment, maxPrincipal)
ClampPrincipal(tentative, extraPayment, maxPrincipal) ==
    RMin(RAdd(tentative, extraPayment), maxPrincipal)

\* Mutant: the interest left out of the base principal portion.
ActualExtraNoInterest(principalPaid, basePayment, interestPaid) ==
    RSub(principalPaid, basePayment)

\* principalPaid - (basePayment - interestPaid)
ActualExtra(principalPaid, basePayment, interestPaid) ==
    RSub(principalPaid, RSub(basePayment, interestPaid))

\* The loop guard: month <= termMonths && remainingBalance > 0.01
LoopGuard(month, termMonths, remainingBalance) ==
    month <= termMonths /\ RLt(Epsilon, remainingBalance)

\* const interestPaid = remainingBalance * monthlyRate
InterestPaid(remainingBalance, monthlyRate) == RMul(remainingBalance, monthlyRate)

\* const extraPayment = extraMonthlyPrincipal + lumpSum (the extra requested)
RequestedExtra(ov, month) == RAdd(ExtraMonthlyPrincipalOf(ov), LumpSumOf(ov, month))

\* principalPaid of the iteration that starts month `month` with `remainingBalance`
PrincipalPaid(ov, basePayment, monthlyRate, month, remainingBalance) ==
    ClampPrincipal(RSub(basePayment, InterestPaid(remainingBalance, monthlyRate)),
                   RequestedExtra(ov, month), remainingBalance)

\* The row pushed by that iteration; newBalance is the loop variable after
\* `remainingBalance -= principalPaid`.
MakeRow(inp, ov, basePayment, monthlyRate, month, remainingBalance, newBalance) ==
    LET interestPaid  == InterestPaid(remainingBalance, monthlyRate)
        principalPaid == PrincipalPaid(ov, basePayment, monthlyRate, month, remainingBalance)
        actualExtra   == ActualExtra(principalPaid, basePayment, interestPaid)
    IN  [ month            |-> month,
          date             |-> inp.startDate + month - 1,
          basePayment      |-> basePayment,
          extraPayment     |-> actualExtra,
          totalPayment     |-> RAdd(RAdd(basePayment, actualExtra), inp.extraMonthlyPayment),
          principalPaid    |-> principalPaid,
          interestPaid     |-> interestPaid,
          remainingBalance |-> RMax(Zero, newBalance) ]

\* The for loop from `month` on, with `sched` and `remainingBalance` as the
\* earlier iterations have left them.
RECURSIVE ScheduleLoop(_, _, _, _, _, _, _)
ScheduleLoop(inp, ov, basePayment, monthlyRate, month, remainingBalance, sched) ==
    IF ~LoopGuard(month, inp.termMonths, remainingBalance)
    THEN sched
    ELSE LET newBalance ==
                 RSub(remainingBalance,
                      PrincipalPaid(ov, basePayment, monthlyRate, month, remainingBalance))
             pushed ==
                 Append(sched, MakeRow(inp, ov, basePayment, monthlyRate, month,
                                       remainingBalance, newBalance))
         IN  IF RLe(newBalance, Epsilon)
             THEN pushed
             ELSE ScheduleLoop(inp, ov, basePayment, monthlyRate, month + 1,
                               newBalance, pushed)

generateAmortizationSchedule(inp, ov) ==
    LET monthlyRate == RDiv(RDiv(inp.annualRate, Rat(100, 1)), Rat(12, 1))
        basePayment == calculateMonthlyPayment(inp.principal, inp.annualRate, inp.termMonths)
    IN  ScheduleLoop(inp, ov, basePayment, monthlyRate, 1, inp.principal, << >>)

(* ---------------------------- calculateSummary ----------------------- *)

\* The optional second argument: undefined, or a schedule.
Undefined == [defined |-> FALSE, rows |-> << >>]
Given(rows) == [defined |-> TRUE, rows |-> rows]

\* Mutant: an empty baseline treated like a missing one.
HasBaselineNonEmpty(base) == base.defined /\ Len(base.rows) > 0

\* if (baseSchedule): an array, even an empty one, is truthy.
HasBaseline(base) == base.defined

calculateSummary(sched, base) ==
    LET totalInterestPaid == SumOver(sched, "interestPaid")
        totalPaid         == SumOver(sched, "totalPayment")
        monthsToPayoff    == Len(sched)
        baseInterest      == SumOver(base.rows, "interestPaid")
    IN  [ totalInterestPaid |-> totalInterestPaid,
          totalPaid         |-> totalPaid,
          monthsToPayoff    |-> monthsToPayoff,
          interestSaved     |-> IF HasBaseline(base)
                                THEN RSub(baseInterest, totalInterestPaid)
                                ELSE Zero,
          monthsSaved       |-> IF HasBaseline(base)
                                THEN Len(base.rows) - monthsToPayoff
                                ELSE 0 ]

(* ------------------------------ inputs --------------------------------- *)

\* Loan amounts: below and just above the 0.01 threshold, and ordinary ones.
Principals == { Rat(1, 200), Rat(1, 50), Rat(7, 1), Rat(38, 1) }

\* Annual rates in percent; the monthly rates are 0, 1/2 and 1.
AnnualRates == { Rat(0, 1), Rat(600, 1), Rat(1200, 1) }

\* Fixed monthly add-on (taxes, insurance).
AddOns == { Rat(0, 1), Rat(3, 1) }

\* Recurring extra principal, one negative value included.
ExtraAmounts == { Rat(-1, 1), Rat(0, 1), Rat(1, 1), Rat(3, 1) }

\* One-time lump sums.
LumpAmounts == { Rat(2, 1), Rat(50, 1) }

LumpSumMaps ==
    UNION { [S -> LumpAmounts] : S \in SUBSET (1 .. MaxTerm) }

NoOverride == [present |-> FALSE, extraMonthlyPrincipal |-> Zero, lumpSumPayments |-> << >>]

Overrides ==
    { NoOverride } \cup
    { [present |-> TRUE, extraMonthlyPrincipal |-> e, lumpSumPayments |-> l] :
        e \in ExtraAmounts, l \in LumpSumMaps }

MortgageInputs ==
    { [principal |-> p, annualRate |-> r, termMonths |-> t, startDate |-> 0,
       extraMonthlyPayment |-> a] :
        p \in Principals, r \in AnnualRates, t \in 1 .. MaxTerm, a \in AddOns }

NoSummary ==
    [totalInterestPaid |-> Zero, totalPaid |-> Zero, monthsToPayoff |-> 0,
     interestSaved |-> Zero, monthsSaved |-> 0]

(* --------------------------- application state ------------------------ *)

\* Scenario ids: 'base', and `scenario-${Date.now()}` for a clock reading.
BaseId == [tag |-> "base", stamp |-> 0]
ScenarioId(now) == [tag |-> "scenario", stamp |-> now]

\* Scenario names: 'Base', `Scenario ${n}`, and a name typed by the user.
BaseName == [label |-> "Base", n |-> 0]
ScenarioName(n) == [label |-> "Scenario", n |-> n]
TypedName == [label |-> "typed", n |-> 0]

\* DEFAULT_STATE.scenarios
DefaultScenarios ==
    << [id |-> BaseId, name |-> BaseName, extraMonthlyPrincipal |-> Zero,
        lumpSumPayments |-> << >>] >>

\* The mortgage inputs built from DEFAULT_STATE: 300000 at 6.5 % over 30 years,
\* with 300 of fixed monthly costs.
DefaultInputs ==
    [principal |-> Rat(300000, 1), annualRate |-> Rat(13, 2), termMonths |-> 30 * 12,
     startDate |-> 0, extraMonthlyPayment |-> Rat(300, 1)]

(* --------------------------- state machine ----------------------------- *)

Init ==
    /\ scenarios = DefaultScenarios
    /\ editingLumpSum = << FALSE >>
    /\ inputs \in MortgageInputs
    /\ overrides \in Overrides
    /\ monthlyPayment = Zero
    /\ schedule = << >>
    /\ baseSchedule = << >>
    /\ baseline = Undefined
    /\ summary = NoSummary
    /\ pc = "start"

\* The caller computes the payment, the scenario's schedule and the base
\* (no override) schedule from the same loan parameters.
Generate ==
    /\ pc = "start"
    /\ monthlyPayment' = calculateMonthlyPayment(inputs.principal, inputs.annualRate,
                                                 inputs.termMonths)
    /\ schedule' = generateAmortizationSchedule(inputs, overrides)
    /\ baseSchedule' = generateAmortizationSchedule(inputs, NoOverride)
    /\ pc' = "generated"
    /\ UNCHANGED <<inputs, overrides, baseline, summary>>
    /\ UNCHANGED appVars

\* The schedules calculateSummary may be given as its baseline: none, the
\* base schedule of the same loan, or the empty schedule (what the generator
\* returns for a balance that starts at or below the threshold).
Baselines == { Undefined, Given(baseSchedule), Given(<< >>) }

\* The caller reduces the scenario's schedule, with or without a baseline.
Summarize ==
    /\ pc = "generated"
    /\ \E b \in Baselines :
        /\ baseline' = b
        /\ summary' = calculateSummary(schedule, b)
    /\ pc' = "summarized"
    /\ UNCHANGED <<inputs, overrides, monthlyPayment, schedule, baseSchedule>>
    /\ UNCHANGED appVars

Next == Generate \/ Summarize

Spec == Init /\ [][Next]_vars

(* ------------------------- the application (App.tsx) ------------------- *)

\* What the user can have typed into the month and amount fields of the
\* lump-sum editor and into the extra-principal field.
MonthTexts == { "", "0", "1", "2", "2.7" }
AmountTexts == { "", "0", "-5", "2", "10000" }
ExtraTexts == { "", "2" }

\* Date.now() readings.
ClockReadings == { 1, 2 }

\* parseInt / parseFloat of those texts: << >> stands for NaN, << v >> for v.
ParseInt(text) ==
    CASE text = ""    -> << >>
      [] text = "0"   -> << 0 >>
      [] text = "1"   -> << 1 >>
      [] text = "2"   -> << 2 >>
      [] text = "2.7" -> << 2 >>

ParseFloat(text) ==
    CASE text = ""      -> << >>
      [] text = "0"     -> << Rat(0, 1) >>
      [] text = "-5"    -> << Rat(-5, 1) >>
      [] text = "2"     -> << Rat(2, 1) >>
      [] text = "10000" -> << Rat(10000, 1) >>

\* parsed || fallback: NaN and 0 are falsy.
IntOr(parsed, fallback) ==
    IF parsed = << >> \/ parsed[1] = 0 THEN fallback ELSE parsed[1]

NumOr(parsed, fallback) ==
    IF parsed = << >> \/ parsed[1] = Zero THEN fallback ELSE parsed[1]

\* lumpSumPayments.filter(([m]) => m !== month)
FilterOutMonth(lumps, month) == SelectSeq(lumps, LAMBDA e : e[1] # month)

\* newLumpSums.sort((a, b) => a[0] - b[0]): a stable sort by period.
RECURSIVE InsertByPeriod(_, _)
InsertByPeriod(sorted, e) ==
    IF sorted = << >> THEN << e >>
    ELSE IF sorted[Len(sorted)][1] - e[1] <= 0
         THEN Append(sorted, e)
         ELSE Append(InsertByPeriod(SubSeq(sorted, 1, Len(sorted) - 1), e),
                     sorted[Len(sorted)])

RECURSIVE SortByPeriod(_)
SortByPeriod(lumps) ==
    IF lumps = << >> THEN << >>
    ELSE InsertByPeriod(SortByPeriod(SubSeq(lumps, 1, Len(lumps) - 1)), lumps[Len(lumps)])

\* Mutant: the new entry pushed without removing the period's old entry.
SaveLumpSumNoFilter(lumps, month, amount) ==
    SortByPeriod(IF RLt(Zero, amount) THEN Append(lumps, << month, amount >>) ELSE lumps)

\* The list handleSaveLumpSum hands to onUpdate: the period's entry filtered
\* out, the new one pushed when amount > 0, the list sorted.
SaveLumpSum(lumps, month, amount) ==
    LET filtered == FilterOutMonth(lumps, month)
        pushed   == IF RLt(Zero, amount)
                    THEN Append(filtered, << month, amount >>)
                    ELSE filtered
    IN  SortByPeriod(pushed)

\* handleUpdateScenario(index, updated), index counted from 1 here.
handleUpdateScenario(i, updated) ==
    /\ scenarios' = [scenarios EXCEPT ![i] = updated]

\* The scenario controls are rendered for every scenario but 'base'.
HasControls(i) == scenarios[i].id # BaseId

\* Mutant: the remove button offered on every column.
CanRemoveAny(index) == TRUE

\* canRemove={index > 0}, index counted from 0.
CanRemove(index) == index > 0

AppInit ==
    /\ scenarios = DefaultScenarios
    /\ editingLumpSum = << FALSE >>
    /\ inputs = DefaultInputs
    /\ overrides = NoOverride
    /\ monthlyPayment = Zero
    /\ schedule = << >>
    /\ baseSchedule = << >>
    /\ baseline = Undefined
    /\ summary = NoSummary
    /\ pc = "start"

\* The name field: onUpdate({ ...scenario, name })
EditName(i) ==
    /\ handleUpdateScenario(i, [scenarios[i] EXCEPT !.name = TypedName])
    /\ UNCHANGED <<editingLumpSum, engineVars>>

\* The extra-principal field: onUpdate({ ...scenario, extraMonthlyPrincipal: parseFloat(v) || 0 })
EditExtraMonthlyPrincipal(i, text) ==
    /\ HasControls(i)
    /\ handleUpdateScenario(i, [scenarios[i] EXCEPT
                                  !.extraMonthlyPrincipal = NumOr(ParseFloat(text), Zero)])
    /\ UNCHANGED <<editingLumpSum, engineVars>>

\* '+ Add' opens the column's lump-sum editor.
handleAddLumpSum(i) ==
    /\ HasControls(i)
    /\ editingLumpSum' = [editingLumpSum EXCEPT ![i] = TRUE]
    /\ UNCHANGED <<scenarios, engineVars>>

\* 'Cancel' closes it.
CancelLumpSum(i) ==
    /\ HasControls(i)
    /\ editingLumpSum[i]
    /\ editingLumpSum' = [editingLumpSum EXCEPT ![i] = FALSE]
    /\ UNCHANGED <<scenarios, engineVars>>

\* 'Save', with the texts the editor's two fields hold.
handleSaveLumpSum(i, monthText, amountText) ==
    /\ HasControls(i)
    /\ editingLumpSum[i]
    /\ LET month  == IntOr(ParseInt(monthText), 1)
           amount == NumOr(ParseFloat(amountText), Zero)
       IN  handleUpdateScenario(i, [scenarios[i] EXCEPT
                 !.lumpSumPayments = SaveLumpSum(scenarios[i].lumpSumPayments, month, amount)])
    /\ editingLumpSum' = [editingLumpSum EXCEPT ![i] = FALSE]
    /\ UNCHANGED engineVars

\* The 'x' beside a listed lump sum.
handleRemoveLumpSum(i, month) ==
    /\ HasControls(i)
    /\ \E k \in 1 .. Len(scenarios[i].lumpSumPayments) :
           scenarios[i].lumpSumPayments[k][1] = month
    /\ handleUpdateScenario(i, [scenarios[i] EXCEPT
             !.lumpSumPayments = FilterOutMonth(scenarios[i].lumpSumPayments, month)])
    /\ UNCHANGED <<editingLumpSum, engineVars>>

\* The 'x' of a column: state.scenarios.filter((_, i) => i !== index).  The
\* column's own state goes with it.
handleRemoveScenario(i) ==
    /\ CanRemove(i - 1)
    /\ scenarios' = [k \in 1 .. (Len(scenarios) - 1) |->
                        IF k < i THEN scenarios[k] ELSE scenarios[k + 1]]
    /\ editingLumpSum' = [k \in 1 .. (Len(scenarios) - 1) |->
                        IF k < i THEN editingLumpSum[k] ELSE editingLumpSum[k + 1]]
    /\ UNCHANGED engineVars

\* '+ Add Scenario'
handleAddScenario ==
    /\ Len(scenarios) < MaxScenarios
    /\ \E now \in ClockReadings :
         scenarios' = Append(scenarios,
                             [id |-> ScenarioId(now),
                              name |-> ScenarioName(Len(scenarios)),
                              extraMonthlyPrincipal |-> Rat(200, 1),
                              lumpSumPayments |-> << >>])
    /\ editingLumpSum' = Append(editingLumpSum, FALSE)
    /\ UNCHANGED engineVars

\* 'Reset All': setState(DEFAULT_STATE) when the user confirms.  Only the
\* column keyed 'base' stays mounted.
handleReset ==
    /\ \E confirmed \in BOOLEAN :
         IF confirmed
         THEN /\ scenarios' = DefaultScenarios
              /\ editingLumpSum' = << editingLumpSum[1] >>
         ELSE UNCHANGED appVars
    /\ UNCHANGED engineVars

AppNext ==
    \/ \E i \in 1 .. Len(scenarios) :
         \/ EditName(i)
         \/ \E text \in ExtraTexts : EditExtraMonthlyPrincipal(i, text)
         \/ handleAddLumpSum(i)
         \/ CancelLumpSum(i)
         \/ \E monthText \in MonthTexts, amountText \in AmountTexts :
                handleSaveLumpSum(i, monthText, amountText)
         \/ \E k \in 1 .. Len(scenarios[i].lumpSumPayments) :
                handleRemoveLumpSum(i, scenarios[i].lumpSumPayments[k][1])
         \/ handleRemoveScenario(i)
    \/ handleAddScenario
    \/ handleReset

AppSpec == AppInit /\ [][AppNext]_vars

(* ------------------------- vocabulary of the claims -------------------- *)

\* The 0.01 of the claims, written out independently of the code's constant.
Cent == Rat(1, 100)

\* 1e-6, the relative tolerance of the principal sum.
RelTol == Rat(1, 1000000)

RAbs(a) == IF RLt(a, Zero) THEN RSub(Zero, a) ELSE a

Generated == pc \in {"generated", "summarized"}

ValidLoan(inp) ==
    /\ RLt(Zero, inp.principal)
    /\ RLe(Zero, inp.annualRate)
    /\ inp.termMonths >= 1

\* Every amount of the override is non-negative.
NonNegative(ov) ==
    /\ RLe(Zero, ExtraMonthlyPrincipalOf(ov))
    /\ \A m \in DOMAIN ov.lumpSumPayments : RLe(Zero, ov.lumpSumPayments[m])

\* The override adds something: a positive recurring extra or a positive lump sum.
AddsExtra(ov) ==
    /\ ov.present
    /\ \/ RLt(Zero, ov.extraMonthlyPrincipal)
       \/ \E m \in DOMAIN ov.lumpSumPayments : RLt(Zero, ov.lumpSumPayments[m])

\* The stored balance after row k of sched; the balance before row 1 is principal.
BalanceAfter(sched, k) == IF k = 0 THEN inputs.principal ELSE sched[k].remainingBalance

\* The base principal portion of row k: basePayment - interestPaid.
BasePortion(sched, k) == RSub(sched[k].basePayment, sched[k].interestPaid)

\* Row k's request, had it been applied in full, would have overpaid the balance.
WouldOverpay(sched, ov, k) ==
    RLt(BalanceAfter(sched, k - 1), RAdd(BasePortion(sched, k), RequestedExtra(ov, k)))

(* --------------------------------- C1 ---------------------------------- *)

\* C1: for every loan with principal > 0, annualRate >= 0 and termMonths >= 1
\* the schedule generated with no override has principalPaid values that sum
\* to principal within 1e-6 relative, and its last row has remainingBalance 0.
C1_BaseAmortizesFully ==
    (Generated /\ ValidLoan(inputs)) =>
        /\ Len(baseSchedule) >= 1
        /\ RLe(RAbs(RSub(SumOver(baseSchedule, "principalPaid"), inputs.principal)),
               RMul(RelTol, inputs.principal))
        /\ baseSchedule[Len(baseSchedule)].remainingBalance = Zero

(* --------------------------------- C2 ---------------------------------- *)

\* C2: for every loan with principal > 0 and termMonths >= 1 and any override
\* with non-negative amounts, the generated schedule has at least one row.
C2_NeverEmpty ==
    (Generated /\ ValidLoan(inputs) /\ NonNegative(overrides)) => Len(schedule) >= 1

(* --------------------------------- C3 ---------------------------------- *)

\* C3: in every emitted row, for any loan and any override, principalPaid +
\* interestPaid equals basePayment + extraPayment, the payoff row (where
\* principalPaid is clamped to the remaining balance) included.
C3_RowInvariant ==
    Generated =>
        \A k \in 1 .. Len(schedule) :
            RAdd(schedule[k].principalPaid, schedule[k].interestPaid)
                = RAdd(schedule[k].basePayment, schedule[k].extraPayment)

\* A schedule of several rows whose payoff row was clamped: the request would
\* have overpaid, and principalPaid is the whole balance before the row.
C3_Witness ==
    /\ Generated
    /\ RLt(Rat(1, 1), inputs.principal)
    /\ Len(schedule) >= 2
    /\ WouldOverpay(schedule, overrides, Len(schedule))
    /\ schedule[Len(schedule)].principalPaid = BalanceAfter(schedule, Len(schedule) - 1)

(* --------------------------------- C4 ---------------------------------- *)

\* C4: for non-negative overrides every row's remainingBalance is >= 0 and
\* equals the previous row's remainingBalance minus this row's principalPaid
\* (the balance before row 1 being principal): the Math.max(0, ...) applied on
\* storage never changes the value.
C4_BalanceChain ==
    (Generated /\ NonNegative(overrides)) =>
        \A k \in 1 .. Len(schedule) :
            /\ RLe(Zero, schedule[k].remainingBalance)
            /\ schedule[k].remainingBalance
                 = RSub(BalanceAfter(schedule, k - 1), schedule[k].principalPaid)

\* A non-negative override whose lump sum in a later period exceeds the balance:
\* without the clamp on principalPaid the balance would go below zero.
C4_Witness ==
    /\ Generated
    /\ RLt(Rat(1, 1), inputs.principal)
    /\ overrides.present
    /\ NonNegative(overrides)
    /\ Len(schedule) >= 2
    /\ WouldOverpay(schedule, overrides, Len(schedule))
    /\ RLt(inputs.principal, RequestedExtra(overrides, Len(schedule)))

(* --------------------------------- C5 ---------------------------------- *)

\* C5: the rows are numbered exactly 1..L with L <= termMonths; L < termMonths
\* if and only if the balance was at or below 0.01 after some period k <
\* termMonths (k = 0 standing for the balance the loan starts with); and no row
\* follows a row whose balance is <= 0.01.
C5_RowsAndEarlyStop ==
    Generated =>
        LET L == Len(schedule)
            N == inputs.termMonths
        IN  /\ \A k \in 1 .. L : schedule[k].month = k
            /\ L <= N
            /\ (L < N) <=>
                 (\E k \in 0 .. (N - 1) : k <= L /\ RLe(BalanceAfter(schedule, k), Cent))
            /\ \A k \in 1 .. (L - 1) : RLt(Cent, schedule[k].remainingBalance)

\* An early payoff after at least one row: the schedule stops short of the term
\* on a row whose balance is at or below 0.01 but not zero.
C5_Witness ==
    /\ Generated
    /\ Len(schedule) >= 1
    /\ Len(schedule) < inputs.termMonths
    /\ RLe(schedule[Len(schedule)].remainingBalance, Cent)
    /\ RLt(Zero, schedule[Len(schedule)].remainingBalance)

(* --------------------------------- C6 ---------------------------------- *)

\* C6: for the same loan, a scenario whose override has extraMonthlyPrincipal
\* > 0 or a positive lump sum (all amounts non-negative) has no more rows than
\* the base schedule and no more total interest, so calculateSummary(scenario,
\* base) returns monthsSaved >= 0 and interestSaved >= 0.
C6_ExtraNeverWorse ==
    (Generated /\ AddsExtra(overrides) /\ NonNegative(overrides)) =>
        /\ Len(schedule) <= Len(baseSchedule)
        /\ RLe(SumOver(schedule, "interestPaid"), SumOver(baseSchedule, "interestPaid"))
        /\ (pc = "summarized" /\ baseline = Given(baseSchedule)) =>
              /\ summary.monthsSaved >= 0
              /\ RLe(Zero, summary.interestSaved)

\* A scenario that pays off strictly earlier and saves interest, summarized
\* against its base schedule.
C6_Witness ==
    /\ pc = "summarized"
    /\ AddsExtra(overrides)
    /\ NonNegative(overrides)
    /\ baseline = Given(baseSchedule)
    /\ Len(baseSchedule) >= 2
    /\ summary.monthsSaved > 0
    /\ RLt(Zero, summary.interestSaved)

(* --------------------------------- C7 ---------------------------------- *)

\* C7: for overrides with non-negative amounts, every row's extraPayment is at
\* least 0 and at most the requested extra (extraMonthlyPrincipal plus the lump
\* sum of the period), and is strictly less than requested only when the full
\* request would overpay the balance.
C7_ExtraWithinRequest ==
    (Generated /\ NonNegative(overrides)) =>
        \A k \in 1 .. Len(schedule) :
            /\ RLe(Zero, schedule[k].extraPayment)
            /\ RLe(schedule[k].extraPayment, RequestedExtra(overrides, k))
            /\ RLt(schedule[k].extraPayment, RequestedExtra(overrides, k))
                 => WouldOverpay(schedule, overrides, k)

(* --------------------------------- C8 ---------------------------------- *)

\* C8: when the requested extra of period k is at least the balance before
\* period k minus the base principal portion, row k is the last row, its
\* remainingBalance is 0, its principalPaid is the balance before period k and
\* its extraPayment is that balance minus the base principal portion; in
\* particular a lump sum at period 1 larger than principal gives a schedule of
\* length 1.
C8_PayoffRow ==
    (Generated /\ ValidLoan(inputs) /\ NonNegative(overrides)) =>
        /\ \A k \in 1 .. Len(schedule) :
              RLe(RSub(BalanceAfter(schedule, k - 1), BasePortion(schedule, k)),
                  RequestedExtra(overrides, k))
              => /\ k = Len(schedule)
                 /\ schedule[k].remainingBalance = Zero
                 /\ schedule[k].principalPaid = BalanceAfter(schedule, k - 1)
                 /\ schedule[k].extraPayment
                      = RSub(BalanceAfter(schedule, k - 1), BasePortion(schedule, k))
        /\ RLt(inputs.principal, LumpSumOf(overrides, 1)) => Len(schedule) = 1

(* --------------------------------- C9 ---------------------------------- *)

\* The sum of a field over the rows, taken from the first row on.
RECURSIVE Total(_, _)
Total(rows, field) ==
    IF rows = << >> THEN Zero ELSE RAdd(rows[1][field], Total(Tail(rows), field))

\* C9: calculateSummary returns monthsToPayoff = the row count, totalInterestPaid
\* and totalPaid = the sums of interestPaid and totalPayment over the rows; with
\* a baseline passed (even an empty one) interestSaved is the baseline's interest
\* sum minus totalInterestPaid and monthsSaved the baseline's row count minus
\* monthsToPayoff; with no baseline both are 0.
C9_Summary ==
    pc = "summarized" =>
        /\ summary.monthsToPayoff = Len(schedule)
        /\ summary.totalInterestPaid = Total(schedule, "interestPaid")
        /\ summary.totalPaid = Total(schedule, "totalPayment")
        /\ baseline.defined =>
              /\ summary.interestSaved
                   = RSub(Total(baseline.rows, "interestPaid"), summary.totalInterestPaid)
              /\ summary.monthsSaved = Len(baseline.rows) - summary.monthsToPayoff
        /\ ~baseline.defined =>
              /\ summary.interestSaved = Zero
              /\ summary.monthsSaved = 0

\* An empty baseline passed for a schedule that has rows and interest: the
\* savings come out negative, not zero.
C9_Witness ==
    /\ pc = "summarized"
    /\ baseline = Given(<< >>)
    /\ Len(schedule) >= 2
    /\ summary.monthsSaved = 0 - Len(schedule)
    /\ RLt(summary.interestSaved, Zero)

(* --------------------------------- C10 --------------------------------- *)

StrictlyAscending(lumps) ==
    \A k \in 1 .. (Len(lumps) - 1) : lumps[k][1] < lumps[k + 1][1]

AllPositive(lumps) == \A k \in 1 .. Len(lumps) : RLt(Zero, lumps[k][2])

Entries(lumps) == { lumps[k] : k \in 1 .. Len(lumps) }

\* What saving (month, amount) does to a list: the period holds exactly the new
\* entry when amount > 0 and no entry otherwise; the other periods are as before.
SavedInto(old, new, month, amount) ==
    /\ { e \in Entries(new) : e[1] = month }
         = IF RLt(Zero, amount) THEN { << month, amount >> } ELSE { }
    /\ { e \in Entries(new) : e[1] # month } = { e \in Entries(old) : e[1] # month }

\* What removing a period does: its entry is gone, the others are as before.
RemovedFrom(old, new, month) ==
    Entries(new) = { e \in Entries(old) : e[1] # month }

\* C11: starting from empty lump-sum lists, after any sequence of
\* handleSaveLumpSum and handleRemoveLumpSum every scenario's list is sorted by
\* period ascending, has at most one entry per period and holds only amounts
\* > 0; a save replaces the period's entry (or removes it when the amount is not
\* positive), and a remove deletes it.
C11_LumpSumList ==
    /\ [](\A i \in 1 .. Len(scenarios) :
             /\ StrictlyAscending(scenarios[i].lumpSumPayments)
             /\ AllPositive(scenarios[i].lumpSumPayments))
    /\ [][\A i \in 1 .. Len(scenarios) :
             /\ \A monthText \in MonthTexts, amountText \in AmountTexts :
                    handleSaveLumpSum(i, monthText, amountText)
                    => SavedInto(scenarios[i].lumpSumPayments,
                                 scenarios'[i].lumpSumPayments,
                                 IntOr(ParseInt(monthText), 1),
                                 NumOr(ParseFloat(amountText), Zero))
             /\ \A k \in 1 .. Len(scenarios[i].lumpSumPayments) :
                    handleRemoveLumpSum(i, scenarios[i].lumpSumPayments[k][1])
                    => RemovedFrom(scenarios[i].lumpSumPayments,
                                   scenarios'[i].lumpSumPayments,
                                   scenarios[i].lumpSumPayments[k][1])]_vars

\* A scenario holding lump sums in two periods, the later one the larger.
C11_Witness ==
    \E i \in 1 .. Len(scenarios) :
        /\ Len(scenarios[i].lumpSumPayments) = 2
        /\ scenarios[i].lumpSumPayments[1] = << 1, Rat(2, 1) >>
        /\ scenarios[i].lumpSumPayments[2] = << 2, Rat(10000, 1) >>

(* --------------------------------- C12 --------------------------------- *)

\* const baseSchedule = schedules[0], and schedules maps state.scenarios in
\* order: the baseline is the schedule of the first scenario.
BaselineScenario == Head(scenarios)

\* C12: starting from DEFAULT_STATE, after any sequence of add-scenario,
\* update-scenario, remove-scenario (offered for index > 0 only) and reset, the
\* scenario list is non-empty and its first element has id 'base', so the
\* schedule used as the baseline is the base scenario's.
C12_BaseStaysFirst ==
    /\ Len(scenarios) >= 1
    /\ scenarios[1].id = BaseId
    /\ BaselineScenario.id = BaseId

\* The list at its longest, with the base scenario renamed and the last
\* scenario edited.
C12_Witness ==
    /\ Len(scenarios) = MaxScenarios
    /\ scenarios[1].name = TypedName
    /\ scenarios[Len(scenarios)].id # BaseId
    /\ scenarios[Len(scenarios)].lumpSumPayments # << >>

====
